---- MODULE Spec2Model ----
(***************************************************************************)
(* Branch-and-bound for 0/1 knapsack (sheets/02_bnb/knapsack_bnb):         *)
(* the three relaxation solvers, MyHeuristic, the two branching strategies *)
(* and the search driver that combines them.                               *)
(*                                                                         *)
(* Python lists are modelled as zero-based arrays (functions on 0..n-1),   *)
(* so that index 0 of the code is index 0 of the model.  Python floats are *)
(* modelled as exact rationals <<numerator, denominator>> in lowest terms; *)
(* Python's None inside a selection is the value NoneSel.                  *)
(* Item values are such rationals too (integer and non-integer values);   *)
(* weights and the capacity are integers.                                  *)
(***************************************************************************)
EXTENDS Integers, Sequences, FiniteSets, TLC

\* ---------------------------------------------------------------- bounds
MaxItems == 3
\* item values are the multiples k / ValueScale, k in 0..MaxValue
MaxValue == 4
ValueScale == 2
MaxWeight == 2
MaxCapacity == 2

\* ------------------------------------------------------------ arithmetic
Abs(x) == IF x < 0 THEN -x ELSE x

RECURSIVE Gcd(_, _)
Gcd(a, b) == IF b = 0 THEN a ELSE Gcd(b, a % b)

\* the float n / d (d > 0), kept in lowest terms so that equal numbers are
\* equal values
Frac(n, d) == LET g == Gcd(Abs(n), d) IN <<n \div g, d \div g>>

RInt(k) == <<k, 1>>
RAdd(a, b) == Frac(a[1] * b[2] + b[1] * a[2], a[2] * b[2])
RSub(a, b) == Frac(a[1] * b[2] - b[1] * a[2], a[2] * b[2])
RMul(a, b) == Frac(a[1] * b[1], a[2] * b[2])
RLe(a, b) == a[1] * b[2] <= b[1] * a[2]
RLt(a, b) == a[1] * b[2] < b[1] * a[2]
\* a / w for an integer w > 0
RDiv(a, w) == Frac(a[1], a[2] * w)

\* Python's int(x): truncation towards zero
IntOf(a) == IF a[1] >= 0 THEN a[1] \div a[2] ELSE -((-a[1]) \div a[2])

\* Python's None: in a decision vector, and in a selection
None == -1
NoneSel == <<0, 0>>

\* ---------------------------------------------------------------- arrays
Size(a) == Cardinality(DOMAIN a)
EmptyArr == << >>
Range(a) == {a[i] : i \in DOMAIN a}
SetMax(S) == CHOOSE x \in S : \A y \in S : y <= x
SetMin(S) == CHOOSE x \in S : \A y \in S : x <= y
\* the p-th smallest element of S, p counted from 0
Nth(S, p) == CHOOSE x \in S : Cardinality({y \in S : y < x}) = p

RECURSIVE SumInt(_, _)
SumInt(S, f) ==
    IF S = {} THEN 0
    ELSE LET i == SetMin(S) IN f[i] + SumInt(S \ {i}, f)

RECURSIVE SumRat(_, _)
SumRat(S, f) ==
    IF S = {} THEN RInt(0)
    ELSE LET i == SetMin(S) IN RAdd(f[i], SumRat(S \ {i}, f))

\* the index set zip(a, b) runs over
Zip(a, b) == DOMAIN a \cap DOMAIN b

\* ------------------------------------------------------------ data model
Values == {Frac(k, ValueScale) : k \in 0..MaxValue}
Item == [value : Values, weight : 0..MaxWeight]
Instances ==
    UNION {[items : [0..(n - 1) -> Item], capacity : 0..MaxCapacity] : n \in 1..MaxItems}
DecisionVectors(n) == [0..(n - 1) -> {0, 1, None}]

\* RelaxedSolution(instance, selection, upper_bound)
RelaxedSolution(selection, upper_bound) ==
    [status |-> "ok", selection |-> selection, upper_bound |-> upper_bound]
\* RelaxedSolution.create_infeasible(instance): upper bound minus infinity
create_infeasible ==
    [status |-> "infeasible", selection |-> EmptyArr, upper_bound |-> RInt(0)]
\* a call that ended in an exception instead of returning
Raised(exception) ==
    [status |-> exception, selection |-> EmptyArr, upper_bound |-> RInt(0)]

is_infeasible(sol) == sol.status = "infeasible"
Returned(sol) == sol.status \in {"ok", "infeasible"}

\* sum(item.weight * sel for item, sel in zip(items, selection))
SelectionWeight(instance, selection) ==
    SumRat(Zip(instance.items, selection),
           [i \in Zip(instance.items, selection) |->
               RMul(RInt(instance.items[i].weight), selection[i])])
does_obey_capacity_constraint(instance, sol) ==
    RLe(SelectionWeight(instance, sol.selection), RInt(instance.capacity))
is_integral(sol) ==
    \A i \in DOMAIN sol.selection : sol.selection[i] \in {RInt(0), RInt(1)}

\* ----------------------------------------------------- relaxation solvers
\* sum(item.weight for item, x in zip(items, decisions) if x == 1)
used(instance, decisions) ==
    SumInt({i \in Zip(instance.items, decisions) : decisions[i] = 1},
           [i \in DOMAIN instance.items |-> instance.items[i].weight])

\* [0.0 if x == 0 else 1.0 for x in decisions]
OnesSelection(decisions) ==
    [i \in DOMAIN decisions |-> IF decisions[i] = 0 THEN RInt(0) ELSE RInt(1)]

\* sum(item.value * sel for item, sel in zip(items, selection))
SelectionValue(instance, selection) ==
    SumRat(Zip(instance.items, selection),
           [i \in Zip(instance.items, selection) |->
               RMul(instance.items[i].value, selection[i])])

VeryNaiveSolve(instance, decisions) ==
    LET selection == OnesSelection(decisions)
    IN RelaxedSolution(selection, SelectionValue(instance, selection))

\* faulty variant: a knapsack filled exactly to its capacity is rejected
NaiveSolve_AtCapacity(instance, decisions) ==
    IF used(instance, decisions) >= instance.capacity
    THEN create_infeasible
    ELSE LET selection == OnesSelection(decisions)
         IN RelaxedSolution(selection, SelectionValue(instance, selection))

NaiveSolve(instance, decisions) ==
    IF used(instance, decisions) > instance.capacity
    THEN create_infeasible
    ELSE LET selection == OnesSelection(decisions)
         IN RelaxedSolution(selection, SelectionValue(instance, selection))

\* {item: x for item, x in zip(instance.items, decisions)}: a dict keyed by
\* the item; items of equal value and weight are one key, which keeps the
\* position of its first occurrence and the decision of its last
DecisionAsSel(x) == IF x = None THEN NoneSel ELSE RInt(x)
items_dict(instance, decisions) ==
    [k \in Range(instance.items) |->
        DecisionAsSel(decisions[SetMax({i \in DOMAIN instance.items :
                                            instance.items[i] = k})])]
\* the positions whose item is a new key, in insertion order
KeyPositions(items) ==
    {i \in DOMAIN items : \A j \in DOMAIN items : j < i => items[j] # items[i]}
\* items_dict.values()
DictValues(items, dict) ==
    [p \in 0..(Cardinality(KeyPositions(items)) - 1) |->
        dict[items[Nth(KeyPositions(items), p)]]]

\* sorted(unfixed_items, key=sort_by_ratio, reverse=True): a stable sort,
\* positions of equal ratio keep their order
RatioGt(a, b) == RLt(RMul(b.value, RInt(a.weight)), RMul(a.value, RInt(b.weight)))
RatioEq(a, b) == RMul(a.value, RInt(b.weight)) = RMul(b.value, RInt(a.weight))
RECURSIVE SortedByRatio(_, _)
SortedByRatio(items, S) ==
    IF S = {} THEN << >>
    ELSE LET b == CHOOSE i \in S : \A j \in S \ {i} :
                      \/ RatioGt(items[i], items[j])
                      \/ (RatioEq(items[i], items[j]) /\ i < j)
         IN <<b>> \o SortedByRatio(items, S \ {b})

\* the loop over sorted_items (relaxation.py 141-156)
RECURSIVE FillLoop(_, _, _, _)
FillLoop(items, sorted, adjusted_cap, st) ==
    IF sorted = << >> THEN st
    ELSE LET item == items[Head(sorted)]
             x == Frac(adjusted_cap - st.weights_sum, item.weight)
             nxt ==
                 IF st.end_reached = 1
                 THEN [st EXCEPT !.dict[item] = RInt(0)]
                 ELSE IF st.weights_sum + item.weight > adjusted_cap
                 THEN [st EXCEPT !.values_sum = RAdd(@, RMul(x, item.value)),
                                 !.dict[item] = x,
                                 !.end_reached = 1]
                 ELSE [st EXCEPT !.values_sum = RAdd(@, item.value),
                                 !.weights_sum = @ + item.weight,
                                 !.dict[item] = RInt(1)]
         IN FillLoop(items, Tail(sorted), adjusted_cap, nxt)

MySolve(instance, decisions) ==
    LET items == instance.items
        dict == items_dict(instance, decisions)
        unfixed == {i \in DOMAIN items : dict[items[i]] = NoneSel}
        enforced == {i \in DOMAIN items : dict[items[i]] = RInt(1)}
        weights == [i \in DOMAIN items |-> items[i].weight]
        values == [i \in DOMAIN items |-> items[i].value]
        adjusted_cap == instance.capacity - SumInt(enforced, weights)
        st0 == [weights_sum |-> 0,
                values_sum |-> SumRat(enforced, values),
                end_reached |-> 0,
                dict |-> dict]
        st == FillLoop(items, SortedByRatio(items, unfixed), adjusted_cap, st0)
    IN IF used(instance, decisions) > instance.capacity
       THEN create_infeasible
       ELSE IF \E i \in unfixed : items[i].weight = 0
       THEN Raised("ZeroDivisionError")
       ELSE RelaxedSolution(DictValues(items, st.dict), st.values_sum)

Solve(solver, instance, decisions) ==
    CASE solver = "VeryNaive" -> VeryNaiveSolve(instance, decisions)
      [] solver = "Naive" -> NaiveSolve(instance, decisions)
      [] solver = "My" -> MySolve(instance, decisions)

Solvers == {"VeryNaive", "Naive", "My"}

\* ------------------------------------------------------------- heuristic
NoSolution == Raised("none")

\* HeuristicSolution(instance, selection, upper_bound)
HeuristicSolution(selection, upper_bound) == RelaxedSolution(selection, upper_bound)

\* the indices i with int(adj_selection[i]) != adj_selection[i]
FractionalIndices(selection) ==
    {i \in DOMAIN selection : RInt(IntOf(selection[i])) # selection[i]}

\* the second loop of MyHeuristic.search (heuristics.py 80-82), from index i
RECURSIVE BestIdxLoop(_, _, _, _, _)
BestIdxLoop(instance, adj_selection, upper, i, best_idx) ==
    IF i \notin DOMAIN adj_selection THEN best_idx
    ELSE IF /\ adj_selection[i] = NoneSel
            /\ RLe(RAdd(RInt(instance.items[i].weight), upper), RInt(instance.capacity))
            /\ RLt(RInt(best_idx), instance.items[i].value)
    THEN BestIdxLoop(instance, adj_selection, upper, i + 1, i)
    ELSE BestIdxLoop(instance, adj_selection, upper, i + 1, best_idx)

\* MyHeuristic.search(instance, relaxed): the candidates returned, and the
\* relaxed solution as the call leaves it (adj_selection is relaxed.selection
\* itself, not a copy)
search(instance, relaxed) ==
    LET selection == relaxed.selection
        frac == FractionalIndices(selection)
        f == SetMin(frac)
        upper1 == IF frac = {} THEN relaxed.upper_bound
                  ELSE RSub(relaxed.upper_bound,
                            RMul(selection[f], instance.items[f].value))
        adj1 == IF frac = {} THEN selection ELSE [selection EXCEPT ![f] = RInt(0)]
        best_idx == BestIdxLoop(instance, adj1, upper1, 0, 0)
        adj2 == [adj1 EXCEPT ![best_idx] = RInt(1)]
        upper2 == RAdd(upper1, instance.items[best_idx].value)
    IN IF ~does_obey_capacity_constraint(instance, relaxed)
       THEN [status |-> "ok", candidates |-> << >>, relaxed |-> relaxed]
       ELSE IF is_integral(relaxed)
       THEN [status |-> "ok",
             candidates |-> <<HeuristicSolution(selection, relaxed.upper_bound)>>,
             relaxed |-> relaxed]
       ELSE IF best_idx \notin DOMAIN adj1
       THEN [status |-> "IndexError", candidates |-> << >>, relaxed |-> relaxed]
       ELSE [status |-> "ok",
             candidates |-> <<HeuristicSolution(adj2, upper2)>>,
             relaxed |-> [relaxed EXCEPT !.selection = adj2]]

\* ------------------------------------------------------------- branching
Undecided(decisions) == {i \in DOMAIN decisions : decisions[i] = None}

\* BranchingDecisions.split_on(i)
split_on(decisions, i) ==
    <<[decisions EXCEPT ![i] = 0], [decisions EXCEPT ![i] = 1]>>

\* faulty variant: the minimum taken over all slots, fixed ones included
first_unfixed_AnySlot(decisions) ==
    IF DOMAIN decisions = {} THEN -1 ELSE SetMin(DOMAIN decisions)

\* min((i for i, val in enumerate(decisions) if val is None), default=-1)
first_unfixed(decisions) ==
    IF Undecided(decisions) = {} THEN -1 ELSE SetMin(Undecided(decisions))

\* what make_branching_decisions returns, and the index split_on was called
\* with (-1: split_on was not called)
Leaf == [status |-> "ok", children |-> << >>, split_idx |-> -1]
Split(decisions, i) ==
    [status |-> "ok", children |-> split_on(decisions, i), split_idx |-> i]

\* faulty variant: the last undecided slot instead of the first
FirstUndecidedBranch_Last(node) ==
    IF Undecided(node.branching_decisions) = {}
    THEN Leaf
    ELSE Split(node.branching_decisions, SetMax(Undecided(node.branching_decisions)))

FirstUndecidedBranch(node) ==
    IF first_unfixed(node.branching_decisions) < 0
    THEN Leaf
    ELSE Split(node.branching_decisions, first_unfixed(node.branching_decisions))

\* faulty variant: the loop without the test that the item fits the capacity
RECURSIVE DensityLoop_NoFit(_, _, _, _, _)
DensityLoop_NoFit(instance, node, enforced_weight, i, st) ==
    IF i \notin Zip(instance.items, node.heuristic_solution.selection) \/ st.raised
    THEN st
    ELSE LET item == instance.items[i]
             x == node.heuristic_solution.selection[i]
             reached == /\ node.branching_decisions[i] = None
                        /\ (x = RInt(0) \/ x = NoneSel)
         IN IF reached /\ item.weight = 0
            THEN [st EXCEPT !.raised = TRUE]
            ELSE IF /\ reached
                    /\ RLt(st.max_val, RDiv(item.value, item.weight))
            THEN DensityLoop_NoFit(instance, node, enforced_weight, i + 1,
                                   [st EXCEPT !.max_val = RDiv(item.value, item.weight),
                                              !.idx = i])
            ELSE DensityLoop_NoFit(instance, node, enforced_weight, i + 1, st)

\* the loop of MyBranchingStrategy (branching_strategy.py 73-78), from index i
RECURSIVE DensityLoop(_, _, _, _, _)
DensityLoop(instance, node, enforced_weight, i, st) ==
    IF i \notin Zip(instance.items, node.heuristic_solution.selection) \/ st.raised
    THEN st
    ELSE LET item == instance.items[i]
             x == node.heuristic_solution.selection[i]
             reached == /\ node.branching_decisions[i] = None
                        /\ (x = RInt(0) \/ x = NoneSel)
         IN IF reached /\ item.weight = 0
            THEN [st EXCEPT !.raised = TRUE]
            ELSE IF /\ reached
                    /\ RLt(st.max_val, RDiv(item.value, item.weight))
                    /\ item.weight + enforced_weight <= instance.capacity
            THEN DensityLoop(instance, node, enforced_weight, i + 1,
                             [st EXCEPT !.max_val = RDiv(item.value, item.weight),
                                        !.idx = i])
            ELSE DensityLoop(instance, node, enforced_weight, i + 1, st)

MyBranch(instance, node) ==
    LET enforced_weight == used(instance, node.branching_decisions)
        st == DensityLoop(instance, node, enforced_weight, 0,
                          [max_val |-> RInt(0), idx |-> 0, raised |-> FALSE])
    IN IF node.heuristic_solution # NoSolution
          /\ RLe(RInt(IntOf(node.relaxed_solution.upper_bound)),
                 node.heuristic_solution.upper_bound)
       THEN Leaf
       ELSE IF node.heuristic_solution # NoSolution /\ st.raised
       THEN [status |-> "ZeroDivisionError", children |-> << >>, split_idx |-> -1]
       ELSE IF node.heuristic_solution # NoSolution /\ st.idx # 0
       THEN Split(node.branching_decisions, st.idx)
       ELSE FirstUndecidedBranch(node)

make_branching_decisions(strategy, instance, node) ==
    CASE strategy = "FirstUndecided" -> FirstUndecidedBranch(node)
      [] strategy = "My" -> MyBranch(instance, node)

Strategies == {"FirstUndecided", "My"}

\* ---------------------------------------------------------------- driver
BnBNode(branching_decisions, relaxed_solution) ==
    [branching_decisions |-> branching_decisions,
     relaxed_solution |-> relaxed_solution,
     heuristic_solution |-> NoSolution]

\* the best of the candidates (the first of the best ones), NoSolution if none
RECURSIVE BestCandidate(_, _)
BestCandidate(candidates, best) ==
    IF candidates = << >> THEN best
    ELSE IF best = NoSolution \/ RLt(best.upper_bound, Head(candidates).upper_bound)
    THEN BestCandidate(Tail(candidates), Head(candidates))
    ELSE BestCandidate(Tail(candidates), best)

\* objective a > objective b, an absent solution counting as minus infinity
Better(a, b) == a # NoSolution /\ (b = NoSolution \/ RLt(b.upper_bound, a.upper_bound))

\* ------------------------------------------------------------------ state
VARIABLES
    instance,     \* the Instance given to the solver or to the driver
    decisions,    \* SpecSolve: the decision vector given to solve
    result,       \* SpecSolve: what solve returned
    relaxation,   \* the configured RelaxationSolver
    branching,    \* the configured BranchingStrategy
    frontier,     \* the open nodes, the next one to pop last
    incumbent,    \* the best HeuristicSolution found, NoSolution if none
    status,       \* "start", "running", "done", or "error"
    last          \* what the last iteration of the driver did

vars == <<instance, decisions, result, relaxation, branching, frontier,
          incumbent, status, last>>

NoStep == [kind |-> "none"]

\* ------------------------------------------ SpecSolve: one call of solve
\* on any instance and any decision vector of its length (one item fewer
\* than the driver's instances, every decision vector being enumerated)
InitSolve ==
    /\ instance \in Instances
    /\ Size(instance.items) < MaxItems
    /\ decisions \in DecisionVectors(Size(instance.items))
    /\ relaxation \in Solvers
    /\ result = NoSolution
    /\ branching = "none"
    /\ frontier = << >>
    /\ incumbent = NoSolution
    /\ status = "call"
    /\ last = NoStep

CallSolve ==
    /\ status = "call"
    /\ status' = "returned"
    /\ result' = Solve(relaxation, instance, decisions)
    /\ UNCHANGED <<instance, decisions, relaxation, branching, frontier,
                   incumbent, last>>

NextSolve == CallSolve

SpecSolve == InitSolve /\ [][NextSolve]_vars

\* ------------------------------------------------- Spec: the search driver
\* The driver pops depth-first (the last node pushed), has no time budget,
\* and trusts the heuristic's candidates.  An exception that leaves a call
\* ends the run in status "error".
Init ==
    /\ instance \in Instances
    /\ relaxation \in Solvers
    /\ branching \in Strategies
    /\ decisions = EmptyArr
    /\ result = NoSolution
    /\ frontier = << >>
    /\ incumbent = NoSolution
    /\ status = "start"
    /\ last = NoStep

\* step 1: the root node, all slots undecided, with its relaxation
Start ==
    /\ status = "start"
    /\ LET root == [i \in DOMAIN instance.items |-> None]
           relaxed == Solve(relaxation, instance, root)
       IN IF Returned(relaxed)
          THEN /\ frontier' = <<BnBNode(root, relaxed)>>
               /\ status' = "running"
               /\ last' = [kind |-> "start"]
          ELSE /\ frontier' = << >>
               /\ status' = "error"
               /\ last' = [kind |-> "raised", exception |-> relaxed.status]
    /\ UNCHANGED <<instance, decisions, result, relaxation, branching, incumbent>>

Top == frontier[Len(frontier)]
Rest == SubSeq(frontier, 1, Len(frontier) - 1)

Pruned(node) ==
    \/ is_infeasible(node.relaxed_solution)
    \/ /\ incumbent # NoSolution
       /\ RLe(node.relaxed_solution.upper_bound, incumbent.upper_bound)

\* step 2b: the popped node is discarded
Prune ==
    /\ status = "running"
    /\ frontier # << >>
    /\ Pruned(Top)
    /\ frontier' = Rest
    /\ last' = [kind |-> "prune", node |-> Top]
    /\ UNCHANGED <<instance, decisions, result, relaxation, branching,
                   incumbent, status>>

\* the relaxations of the children, in the order of `children`
ChildNodes(children) ==
    [k \in DOMAIN children |->
        BnBNode(children[k], Solve(relaxation, instance, children[k]))]

\* the exception that ends the iteration, "no" if none does
RaisedBy(heur, branch, nodes) ==
    IF heur.status # "ok" THEN heur.status
    ELSE IF branch.status # "ok" THEN branch.status
    ELSE IF \E k \in DOMAIN nodes : ~Returned(nodes[k].relaxed_solution)
    THEN "ZeroDivisionError"
    ELSE "no"

\* the popped node once Heuristics.search has run on its relaxed solution
Searched(node, heur) ==
    [node EXCEPT !.relaxed_solution = heur.relaxed,
                 !.heuristic_solution = BestCandidate(heur.candidates, NoSolution)]

\* steps 2c and 2d: heuristic, incumbent, branching, children pushed
Expand ==
    /\ status = "running"
    /\ frontier # << >>
    /\ ~Pruned(Top)
    /\ \E heur \in {search(instance, Top.relaxed_solution)} :
       \E node \in {Searched(Top, heur)} :
       \E branch \in {make_branching_decisions(branching, instance, node)} :
       \E nodes \in {ChildNodes(branch.children)} :
       \E raised \in {RaisedBy(heur, branch, nodes)} :
          /\ last' = [kind |-> "expand", node |-> node, before |-> Top,
                      heur |-> heur, branch |-> branch, raised |-> raised]
          /\ incumbent' =
                 IF heur.status = "ok" /\ Better(node.heuristic_solution, incumbent)
                 THEN node.heuristic_solution
                 ELSE incumbent
          /\ frontier' = IF raised = "no" THEN Rest \o nodes ELSE Rest
          /\ status' = IF raised = "no" THEN status ELSE "error"
    /\ UNCHANGED <<instance, decisions, result, relaxation, branching>>

\* step 3: the frontier is empty
Finish ==
    /\ status = "running"
    /\ frontier = << >>
    /\ status' = "done"
    /\ last' = [kind |-> "finish"]
    /\ UNCHANGED <<instance, decisions, result, relaxation, branching,
                   frontier, incumbent>>

Next == Start \/ Prune \/ Expand \/ Finish

Spec == Init /\ [][Next]_vars

\* ================================================================ claims
\* what the claims are stated against: the 0/1 vectors that agree with the
\* fixed slots of `d` and fit the capacity, and their values
FixedOneWeight(inst, d) ==
    SumInt({i \in DOMAIN inst.items : d[i] = 1},
           [i \in DOMAIN inst.items |-> inst.items[i].weight])
Picked(c) == {i \in DOMAIN c : c[i] = 1}
WeightOf(inst, c) ==
    SumInt(Picked(c), [i \in DOMAIN inst.items |-> inst.items[i].weight])
ValueOf(inst, c) ==
    SumRat(Picked(c), [i \in DOMAIN inst.items |-> inst.items[i].value])
Completions(inst, d) ==
    {c \in [DOMAIN inst.items -> {0, 1}] :
        /\ \A i \in DOMAIN d : d[i] # None => c[i] = d[i]
        /\ WeightOf(inst, c) <= inst.capacity}
AllUndecided(inst) == [i \in DOMAIN inst.items |-> None]
\* the optimum of the instance by brute force (the empty selection always fits)
Optimum(inst) ==
    LET worth == {ValueOf(inst, c) : c \in Completions(inst, AllUndecided(inst))}
    IN CHOOSE v \in worth : \A w \in worth : RLe(w, v)

\* a <= b for upper bounds, an infeasible result counting as minus infinity
BoundLe(a, b) ==
    \/ is_infeasible(a)
    \/ (~is_infeasible(b) /\ RLe(a.upper_bound, b.upper_bound))

\* C1 (as claimed): the upper bound solve returns is at least the value of
\* every 0/1 completion of the decisions that fits the capacity, and solve
\* returns the infeasible solution only when there is no such completion.
C1_BoundSoundness ==
    status = "returned" =>
        /\ result.status = "ok" =>
              \A c \in Completions(instance, decisions) :
                  RLe(ValueOf(instance, c), result.upper_bound)
        /\ is_infeasible(result) => Completions(instance, decisions) = {}

\* C2 (as claimed): a run of the driver with MyRelaxationSolver, MyHeuristic
\* and MyBranchingStrategy that drains the frontier ends with an incumbent
\* whose selection is 0/1, weighs at most the capacity and is worth the
\* brute-force optimum.
SelectedOf(selection) == [i \in DOMAIN selection |-> IF selection[i] = RInt(1) THEN 1 ELSE 0]
C2_Optimality ==
    (status = "done" /\ relaxation = "My" /\ branching = "My") =>
        /\ incumbent # NoSolution
        /\ DOMAIN incumbent.selection = DOMAIN instance.items
        /\ WeightOf(instance, SelectedOf(incumbent.selection)) <= instance.capacity
        /\ ValueOf(instance, SelectedOf(incumbent.selection)) = Optimum(instance)

\* C3 (as claimed): every HeuristicSolution MyHeuristic.search returns has
\* only 0 and 1 in its selection and a selected weight within the capacity.
C3_HeuristicFeasible ==
    last.kind = "expand" =>
        \A k \in DOMAIN last.heur.candidates :
            LET h == last.heur.candidates[k]
            IN /\ \A i \in DOMAIN h.selection : h.selection[i] \in {RInt(0), RInt(1)}
               /\ RLe(SelectionWeight(instance, h.selection), RInt(instance.capacity))

\* C4: with no time budget the search ends with an empty frontier: every
\* decision vector a branching strategy returns has strictly fewer undecided
\* slots than the node it was produced from, so that every iteration of the
\* running search lowers the number of nodes still to process (Potential,
\* never negative) and none aborts it: the loop ends, its frontier empty.
ChildrenShrink ==
    last.kind = "expand" =>
        \A k \in DOMAIN last.branch.children :
            Cardinality(Undecided(last.branch.children[k]))
                < Cardinality(Undecided(last.node.branching_decisions))
RECURSIVE Pow2(_)
Pow2(n) == IF n = 0 THEN 1 ELSE 2 * Pow2(n - 1)
\* the number of nodes the search can still process: a node with u undecided
\* slots roots a tree of at most 2^(u+1) - 1 nodes; plus one for the step
\* that ends the loop
Potential ==
    (IF status = "running" THEN 1 ELSE 0)
        + SumInt(DOMAIN frontier,
                 [k \in DOMAIN frontier |->
                     Pow2(Cardinality(Undecided(frontier[k].branching_decisions)) + 1) - 1])
C4_Termination ==
    /\ []ChildrenShrink
    /\ [](status = "done" => frontier = << >>)
    /\ [][status = "running" =>
              (Potential' < Potential /\ status' \in {"running", "done"})]_vars
\* a node was split in two and the search went on
C4_Witness ==
    /\ status = "running"
    /\ last.kind = "expand"
    /\ Len(last.branch.children) = 2
    /\ Len(frontier) >= 2

\* C5 (as claimed): the selection solve returns has one entry per item, and
\* the entry of every slot the decisions fix is the fixed value.
C5_FixedPropagate ==
    (status = "returned" /\ result.status = "ok") =>
        /\ DOMAIN result.selection = DOMAIN instance.items
        /\ \A i \in DOMAIN decisions :
              decisions[i] # None => result.selection[i] = RInt(decisions[i])

\* C6 (as claimed): on the same instance and decisions the bound of
\* MyRelaxationSolver is at most the bound of NaiveRelaxationSolver, which
\* is at most the bound of VeryNaiveRelaxationSolver (infeasible: minus
\* infinity).
C6_MonotonicTightening ==
    (status = "returned" /\ relaxation = "My" /\ Returned(result)) =>
        /\ BoundLe(result, NaiveSolve(instance, decisions))
        /\ BoundLe(NaiveSolve(instance, decisions), VeryNaiveSolve(instance, decisions))

\* C7 (as claimed): every solver returns the infeasible solution when the
\* items fixed to 1 weigh more than the capacity, and a solution that is not
\* infeasible when they do not.
C7_InfeasibleIffOverweight ==
    status = "returned" =>
        /\ FixedOneWeight(instance, decisions) > instance.capacity
              => is_infeasible(result)
        /\ (FixedOneWeight(instance, decisions) <= instance.capacity /\ Returned(result))
              => ~is_infeasible(result)
\* C7 (amended): NaiveRelaxationSolver and MyRelaxationSolver return the
\* infeasible solution exactly when the items fixed to 1 weigh more than the
\* capacity; VeryNaiveRelaxationSolver never returns it.
C7_Amended ==
    status = "returned" =>
        IF relaxation = "VeryNaive"
        THEN ~is_infeasible(result)
        ELSE is_infeasible(result)
                 <=> FixedOneWeight(instance, decisions) > instance.capacity
\* the fixed-1 items overflow the capacity and the solver said infeasible
C7_Witness ==
    /\ status = "returned"
    /\ relaxation \in {"Naive", "My"}
    /\ FixedOneWeight(instance, decisions) > instance.capacity
    /\ is_infeasible(result)

\* C8: make_branching_decisions returns nothing, or exactly two vectors that
\* are the node's decisions with one undecided slot set to 0 in the first and
\* to 1 in the second; split_on is only called on an undecided slot; and
\* FirstUndecidedBranchingStrategy returns nothing exactly when no slot is
\* undecided and otherwise splits on the smallest undecided index.
SplitsAt(d, children, i) ==
    /\ d[i] = None
    /\ Len(children) = 2
    /\ \A k \in 1..2 :
          /\ DOMAIN children[k] = DOMAIN d
          /\ children[k][i] = k - 1
          /\ \A j \in DOMAIN d \ {i} : children[k][j] = d[j]
C8_BranchingShape ==
    last.kind = "expand" =>
        LET d == last.node.branching_decisions
            b == last.branch
        IN /\ b.status = "ok"
           /\ \/ b.children = << >> /\ b.split_idx = -1
              \/ b.split_idx \in DOMAIN d /\ SplitsAt(d, b.children, b.split_idx)
           /\ branching = "FirstUndecided" =>
                 IF Undecided(d) = {}
                 THEN b.children = << >>
                 ELSE /\ b.children # << >>
                      /\ \A j \in Undecided(d) : b.split_idx <= j
\* a node with its first slot fixed was split on a later slot
C8_Witness ==
    /\ last.kind = "expand"
    /\ Len(last.branch.children) = 2
    /\ last.node.branching_decisions[0] # None
    /\ last.branch.split_idx > 0

\* C9: the case the claim is about: MyBranchingStrategy, a node that carries
\* a heuristic solution, the cutoff not applying
DensityCase ==
    /\ last.kind = "expand"
    /\ branching = "My"
    /\ last.node.heuristic_solution # NoSolution
    /\ ~RLe(RInt(IntOf(last.node.relaxed_solution.upper_bound)),
            last.node.heuristic_solution.upper_bound)
\* i has the highest value/weight ratio of Q, and is the first index that has
BestRatioIn(Q, i) ==
    /\ i \in Q
    /\ \A j \in Q : ~RatioGt(instance.items[j], instance.items[i])
    /\ \A j \in Q : j < i => RatioGt(instance.items[i], instance.items[j])
SplitOnBestOf(Q) ==
    LET d == last.node.branching_decisions
    IN IF Q # {}
       THEN \E i \in Q : /\ \A j \in Q : ~RatioGt(instance.items[j], instance.items[i])
                         /\ last.branch.split_idx = i
       ELSE last.branch.split_idx = first_unfixed(d)
Fits(i) ==
    instance.items[i].weight
        + FixedOneWeight(instance, last.node.branching_decisions) <= instance.capacity
HeuristicEntry(i) ==
    IF i \in DOMAIN last.node.heuristic_solution.selection
    THEN last.node.heuristic_solution.selection[i]
    ELSE NoneSel
\* C9 (as claimed): the split is on an index of the highest value/weight
\* ratio among the undecided indices that the heuristic selection does not
\* exclude and that fit beside the items fixed to 1; on the smallest
\* undecided index when there is none.
C9_DensityChoice ==
    DensityCase =>
        SplitOnBestOf({i \in Undecided(last.node.branching_decisions) :
                          HeuristicEntry(i) # RInt(0) /\ Fits(i)})
\* C9 (amended): the split is on the first index of the highest value/weight
\* ratio among the undecided indices whose entry in the heuristic selection
\* is 0, whose value is positive and that fit beside the items fixed to 1;
\* on the smallest undecided index when there is none.
C9_Amended ==
    DensityCase =>
        LET Q == {i \in Undecided(last.node.branching_decisions) :
                     /\ HeuristicEntry(i) = RInt(0)
                     /\ RLt(RInt(0), instance.items[i].value)
                     /\ Fits(i)}
        IN IF Q # {}
           THEN BestRatioIn(Q, last.branch.split_idx)
           ELSE last.branch.split_idx = first_unfixed(last.node.branching_decisions)
\* the density rule chose an index other than the smallest undecided one
C9_Witness ==
    /\ DensityCase
    /\ last.branch.split_idx > first_unfixed(last.node.branching_decisions)
    /\ HeuristicEntry(last.branch.split_idx) = RInt(0)

\* C10 (as claimed): on a well-formed instance no call of solve, search or
\* make_branching_decisions made by the search ends in an exception.
C10_NoException == status # "error"

\* C11 (as claimed): when MyBranchingStrategy returns nothing because the
\* node's heuristic objective is at least the integer part of its relaxed
\* upper bound, no 0/1 completion of the node's decisions that fits the
\* capacity is worth more than the heuristic objective.
CutoffCase ==
    /\ last.kind = "expand"
    /\ branching = "My"
    /\ last.node.heuristic_solution # NoSolution
    /\ RLe(RInt(IntOf(last.node.relaxed_solution.upper_bound)),
           last.node.heuristic_solution.upper_bound)
C11_CutoffSound ==
    CutoffCase =>
        \A c \in Completions(instance, last.node.branching_decisions) :
            RLe(ValueOf(instance, c), last.node.heuristic_solution.upper_bound)

\* C12 (as claimed): when the items fixed to 1 fit the capacity, the
\* selection MyRelaxationSolver.solve returns has one entry per item, at most
\* one entry strictly between 0 and 1, the entry 0.0 for every undecided item
\* that comes after the fractional one in descending value/weight order, and
\* a weighted sum (weight times selection) of at most the capacity.
FractionalCase ==
    /\ status = "returned"
    /\ relaxation = "My"
    /\ FixedOneWeight(instance, decisions) <= instance.capacity
    /\ result.status = "ok"
IsFractional(x) == RLt(RInt(0), x) /\ RLt(x, RInt(1))
\* item j comes after item f in descending value/weight order (equal ratios
\* in index order)
ComesAfter(f, j) ==
    \/ RatioGt(instance.items[f], instance.items[j])
    \/ (RatioEq(instance.items[f], instance.items[j]) /\ f < j)
SelectedValue(inst, selection) ==
    SumRat({i \in Zip(inst.items, selection) : selection[i] = RInt(1)},
           [i \in DOMAIN inst.items |-> inst.items[i].value])
C13_ObjectiveConsistent ==
    last.kind = "expand" =>
        \A k \in DOMAIN last.heur.candidates :
            last.heur.candidates[k].upper_bound =
                SelectedValue(instance, last.heur.candidates[k].selection)

\* C14 (as claimed): MyHeuristic.search leaves the relaxed solution it is
\* given unchanged: after the call the node's relaxed selection and upper
\* bound are what they were before it.
C14_SearchPure ==
    last.kind = "expand" =>
        /\ last.heur.relaxed = last.before.relaxed_solution
        /\ last.node.relaxed_solution = last.before.relaxed_solution

====
